---- MODULE Spec2Model ----
(***************************************************************************)
(* Tool-calling orchestration loops of the Foundry Local samples:          *)
(*   quiz_slm_fixed.py     embedded-text ("functools[...]") agent and      *)
(*                         its QuizCoordinator                             *)
(*   quiz_slm_working.py   structured (tool_calls) agent and its           *)
(*                         QuizCoordinator with fallback                   *)
(*   test_phi4_toolcalling.py  structured test loop test_tool_calling      *)
(*   compare_modes.py      one-shot test_mode_a with its Mode B fallback   *)
(***************************************************************************)
EXTENDS Integers, Sequences, FiniteSets, TLC

\* ------------------------------------------------------------------------
\* Bounds of the model
\* ------------------------------------------------------------------------
\* number of requests the endpoint answers freely; afterwards it repeats
\* its last answer
MaxVaried == 2
\* last clock second a run can reach
MaxClock == 2

\* ------------------------------------------------------------------------
\* Python / JSON values.  A value is tagged by the name of its only field.
\* Strings are sequences of characters or words.
\* ------------------------------------------------------------------------
PyStr(s) == [str |-> s]
PyInt(n) == [int |-> n]
PyList(a) == [arr |-> a]
PyDict(o) == [obj |-> o]
IsStr(v) == "str" \in DOMAIN v
IsInt(v) == "int" \in DOMAIN v
IsArr(v) == "arr" \in DOMAIN v
IsObj(v) == "obj" \in DOMAIN v
EmptyDict == [k \in {} |-> 0]

Min(a, b) == IF a <= b THEN a ELSE b
Max(a, b) == IF a >= b THEN a ELSE b
Range(s) == {s[i] : i \in DOMAIN s}

\* truth value of a Python object (`not x`)
Falsy(v) ==
    \/ IsObj(v) /\ DOMAIN v.obj = {}
    \/ IsStr(v) /\ v.str = <<>>
    \/ IsArr(v) /\ v.arr = <<>>
    \/ IsInt(v) /\ v.int = 0

\* `key in v` for a dict (key lookup) or a string (substring)
Contains(v, key) ==
    \/ IsObj(v) /\ key \in DOMAIN v.obj
    \/ IsStr(v) /\ key \in Range(v.str)

\* outcomes of a Python call: a returned value or a raised exception
Ret(r) == [ret |-> r]
Exc(type, msg) == [exc |-> type, msg |-> msg]
Raised(o) == "exc" \in DOMAIN o
IsError(r) == "error" \in DOMAIN r

\* json.loads of an argument string; json.dumps of a value
Dumps(v) == [json |-> v]
Garbage == [garbage |-> <<"{", "oops">>]
Loads(s) == IF "json" \in DOMAIN s THEN Ret(s.json)
            ELSE Exc("JSONDecodeError", <<"Expecting value">>)

\* f(**arguments): binding of a keyword mapping to a signature
Bind(params, required, arguments) ==
    IF ~IsObj(arguments)
    THEN Exc("TypeError", <<"argument after ** must be a mapping">>)
    ELSE IF DOMAIN arguments.obj \ params # {}
    THEN Exc("TypeError", <<"got an unexpected keyword argument">>)
    ELSE IF required \ DOMAIN arguments.obj # {}
    THEN Exc("TypeError", <<"missing required positional argument">>)
    ELSE Ret(arguments.obj)

\* ------------------------------------------------------------------------
\* The quiz store (one JSON file per quiz_id, one report per quiz_id) and
\* the clock that names the quizzes
\* ------------------------------------------------------------------------
QuizId(t) == <<"quiz_", t>>
QuizPath(id) == <<"quiz_data/", id, ".json">>
ReportPath(id) == <<"quiz_data/", id, "_report.md">>
TruncatedFile == [truncated |-> TRUE]
Env(store, reports) == [store |-> store, reports |-> reports]
Out(o, env) == [out |-> o, env |-> env]

\* The text of a quiz file.  A JSON object is written as the set of its
\* "key": value members, the question list as the list of its objects.
JsonMembers(d) == {<<k, d[k]>> : k \in DOMAIN d}
FromJsonMembers(members) ==
    [k \in {m[1] : m \in members} |-> (CHOOSE m \in members : m[1] = k)[2]]
\* json.dump that leaves out the options of each question
json_dump_no_options(data) ==
    [json_file |->
        [quiz_id |-> data.quiz_id,
         questions |-> [i \in DOMAIN data.questions |->
                           {m \in JsonMembers(data.questions[i]) : m[1] # "options"}]]]
\* json.dump({"quiz_id": ..., "questions": ...}, f, indent=2)
json_dump(data) ==
    [json_file |->
        [quiz_id |-> data.quiz_id,
         questions |-> [i \in DOMAIN data.questions |-> JsonMembers(data.questions[i])]]]
\* json.load(f)
json_load(f) ==
    [quiz_id |-> f.json_file.quiz_id,
     questions |-> [i \in DOMAIN f.json_file.questions |->
                       FromJsonMembers(f.json_file.questions[i])]]

\* ------------------------------------------------------------------------
\* Tools of quiz_slm_fixed.py / quiz_slm_working.py (identical bodies)
\* ------------------------------------------------------------------------
\* a source text is the sequence of its '.'-separated stripped pieces
Sentences(text) == SelectSeq(text, LAMBDA s : s.len > 10)

Question(i, topic) ==
    [id |-> i, question |-> topic,
     options |-> <<"A) Key concept", "B) Not mentioned", "C) Minor detail">>,
     correct_answer |-> <<"A">>]

\* a create_quiz that asks nothing about a text without sentences
create_quiz_per_sentence(kw, env, now) ==
    LET sentences == Sentences(kw.source_text.str)
        n == Min(kw.num_questions.int, Len(sentences))
        questions == [i \in 1..n |->
                        Question(i, sentences[((i - 1) % Len(sentences)) + 1].topic)]
    IN  Out(Ret([questions |-> questions, count |-> Len(questions)]), env)

create_quiz(kw, env, now) ==
    IF ~IsStr(kw.source_text)
    THEN Out(Exc("AttributeError", <<"no attribute 'split'">>), env)
    ELSE IF ~IsInt(kw.num_questions)
    THEN Out(Exc("TypeError", <<"'<' not supported">>), env)
    ELSE LET sentences == Sentences(kw.source_text.str)
             n == Min(kw.num_questions.int, Max(1, Len(sentences)))
             questions ==
                 [i \in 1..n |->
                    Question(i, IF sentences # <<>>
                                THEN sentences[((i - 1) % Len(sentences)) + 1].topic
                                ELSE "the content")]
         IN  Out(Ret([questions |-> questions, count |-> Len(questions)]), env)

save_quiz(kw, env, now) ==
    LET quiz_data == kw.quiz_data
        quiz_id == QuizId(now)
    IN  IF IsInt(quiz_data) /\ ~Falsy(quiz_data)
        THEN Out(Exc("TypeError", <<"argument of type 'int' is not iterable">>), env)
        ELSE IF Falsy(quiz_data) \/ ~Contains(quiz_data, "questions")
        THEN Out(Ret([error |-> <<"Invalid quiz_data">>]), env)
        ELSE IF ~IsObj(quiz_data)
        \* open(filepath, 'w') has run, quiz_data["questions"] raises
        THEN Out(Exc("TypeError", <<"string indices must be integers">>),
                 [env EXCEPT !.store = (quiz_id :> TruncatedFile) @@ @])
        ELSE Out(Ret([quiz_id |-> quiz_id, path |-> QuizPath(quiz_id)]),
                 [env EXCEPT !.store =
                     (quiz_id :> json_dump([quiz_id |-> quiz_id,
                                            questions |-> quiz_data.obj.questions])) @@ @])

Format(v) == IF IsStr(v) THEN v.str ELSE v

\* a load_quiz whose not-found result names the identifier in a field of its own
load_quiz_echo(kw, env, now) ==
    LET quiz_id == Format(kw.quiz_id)
    IN  IF ~IsStr(kw.quiz_id) \/ quiz_id \notin DOMAIN env.store
        THEN Out(Ret([error |-> <<"Quiz not found">>, quiz_id |-> quiz_id]), env)
        ELSE IF env.store[quiz_id] = TruncatedFile
        THEN Out(Exc("JSONDecodeError", <<"Expecting value">>), env)
        ELSE Out(Ret(json_load(env.store[quiz_id])), env)
\* json.load of the quiz file, or the not-found result
load_quiz(kw, env, now) ==
    LET quiz_id == Format(kw.quiz_id)
    IN  IF ~IsStr(kw.quiz_id) \/ quiz_id \notin DOMAIN env.store
        THEN Out(Ret([error |-> <<"Quiz not found: ", quiz_id>>]), env)
        ELSE IF env.store[quiz_id] = TruncatedFile
        THEN Out(Exc("JSONDecodeError", <<"Expecting value">>), env)
        ELSE Out(Ret(json_load(env.store[quiz_id])), env)

Upper(c) ==
    CASE c = "a" -> "A" [] c = "b" -> "B" [] c = "c" -> "C" [] c = "x" -> "X"
      [] OTHER -> c

\* what grade_responses computes from the stored quiz and the responses
Grading(kw, env, now) ==
    LET loaded == load_quiz([quiz_id |-> kw.quiz_id], env, now).out
    IN  IF Raised(loaded) THEN Out(loaded, env)
        ELSE IF IsError(loaded.ret) THEN Out(loaded, env)
        ELSE
        LET questions == loaded.ret.questions
            responses == kw.responses
            answered == IF IsArr(responses)
                        THEN 1..Min(Len(questions), Len(responses.arr))
                        ELSE {}
            user_ans(i) == IF i \in answered
                           THEN Upper(Head(responses.arr[i]))
                           ELSE "X"
            detail(i) ==
                LET correct == Head(questions[i].correct_answer)
                IN  [q |-> i, user |-> user_ans(i), correct |-> correct,
                     result |-> IF user_ans(i) = correct THEN "ok" ELSE "wrong"]
            details == [i \in 1..Len(questions) |-> detail(i)]
            score == Cardinality({i \in 1..Len(questions) : details[i].result = "ok"})
        IN  IF ~IsArr(responses) /\ questions # <<>>
            THEN Out(Exc("TypeError", <<"object has no len()">>), env)
            ELSE IF \E i \in answered : responses.arr[i] = <<>>
            THEN Out(Exc("IndexError", <<"string index out of range">>), env)
            ELSE Out(Ret([quiz_id |-> Format(kw.quiz_id), score |-> score,
                          total |-> Len(questions), details |-> details]), env)

\* a grading that uses the quiz file up
grade_responses_consuming(kw, env, now) ==
    Out(Grading(kw, env, now).out, [env EXCEPT !.store = EmptyDict])
\* a grading that reports the score as a percentage
grade_responses_percent(kw, env, now) ==
    LET graded == Grading(kw, env, now).out
    IN  IF Raised(graded) THEN Out(graded, env)
        ELSE IF IsError(graded.ret) THEN Out(graded, env)
        ELSE Out(Ret([graded.ret EXCEPT
                        !.score = (100 * graded.ret.score) \div Max(1, graded.ret.total)]), env)
\* a grading that scores an unknown quiz as an empty one
grade_responses_unsaved(kw, env, now) ==
    LET graded == Grading(kw, env, now).out
    IN  IF ~Raised(graded) /\ IsError(graded.ret)
        THEN Out(Ret([quiz_id |-> Format(kw.quiz_id), score |-> 0, total |-> 0,
                      details |-> <<>>]), env)
        ELSE Out(graded, env)
\* grade_responses writes no file
grade_responses(kw, env, now) == Out(Grading(kw, env, now).out, env)

create_report(kw, env, now) ==
    LET grading_results == kw.grading_results
        quiz_id == Format(kw.quiz_id)
    IN  IF IsInt(grading_results) /\ ~Falsy(grading_results)
        THEN Out(Exc("TypeError", <<"argument of type 'int' is not iterable">>), env)
        ELSE IF Falsy(grading_results) \/ ~Contains(grading_results, "score")
        THEN Out(Ret([error |-> <<"Invalid grading results">>]), env)
        ELSE IF ~IsObj(grading_results)
        THEN Out(Exc("TypeError", <<"string indices must be integers">>), env)
        ELSE IF "total" \notin DOMAIN grading_results.obj
        THEN Out(Exc("KeyError", <<"total">>), env)
        ELSE Out(Ret([path |-> ReportPath(quiz_id)]),
                 [env EXCEPT !.reports = @ \cup {ReportPath(quiz_id)}])

\* ------------------------------------------------------------------------
\* Tool registries (TOOLS / AVAILABLE_TOOLS) and the signatures of the
\* registered functions
\* ------------------------------------------------------------------------
TOOLS == {"create_quiz", "save_quiz", "load_quiz", "grade_responses", "create_report"}

Params(name) ==
    CASE name = "create_quiz" -> {"source_text", "num_questions"}
      [] name = "save_quiz" -> {"quiz_data"}
      [] name = "load_quiz" -> {"quiz_id"}
      [] name = "grade_responses" -> {"quiz_id", "responses"}
      [] name = "create_report" -> {"quiz_id", "grading_results"}

\* TOOLS[name](**arguments)
CallTool(name, arguments, env, now) ==
    LET bound == Bind(Params(name), Params(name), arguments)
    IN  IF Raised(bound) THEN Out(bound, env)
        ELSE CASE name = "create_quiz" -> create_quiz(bound.ret, env, now)
               [] name = "save_quiz" -> save_quiz(bound.ret, env, now)
               [] name = "load_quiz" -> load_quiz(bound.ret, env, now)
               [] name = "grade_responses" -> grade_responses(bound.ret, env, now)
               [] name = "create_report" -> create_report(bound.ret, env, now)

\* quiz_slm_fixed.py: the executor
execute_tool(name, arguments, env, now) ==
    IF name \notin TOOLS
    THEN Out(Ret([error |-> <<"Unknown tool: ", name>>]), env)
    ELSE LET called == CallTool(name, arguments, env, now)
         IN  IF Raised(called.out) /\ called.out.exc = "TypeError"
             THEN Out(Ret([error |-> <<"Invalid arguments for ", name, ": ">>
                                       \o called.out.msg]), called.env)
             ELSE called

\* ------------------------------------------------------------------------
\* test_phi4_toolcalling.py: mock tools and registry
\* ------------------------------------------------------------------------
AVAILABLE_TOOLS == {"generate_quiz", "save_quiz", "calculate"}

TestParams(name) ==
    CASE name = "generate_quiz" -> {"topic", "num_questions"}
      [] name = "save_quiz" -> {"quiz_id", "quiz_data"}
      [] name = "calculate" -> {"operation", "a", "b"}
TestRequired(name) ==
    CASE name = "generate_quiz" -> {"topic"}
      [] name = "save_quiz" -> {"quiz_id", "quiz_data"}
      [] name = "calculate" -> {"operation", "a", "b"}

generate_quiz(kw) ==
    LET topic == kw.topic
        num_questions == IF "num_questions" \in DOMAIN kw THEN kw.num_questions ELSE PyInt(3)
    IN  IF ~IsInt(num_questions)
        THEN Exc("TypeError", <<"object cannot be interpreted as an integer">>)
        ELSE IF ~IsStr(topic)
        THEN Exc("AttributeError", <<"no attribute 'lower'">>)
        ELSE LET questions ==
                     [i \in 1..num_questions.int |->
                        [id |-> i, question |-> topic.str,
                         options |-> <<"A) Concept 1", "B) Concept 2",
                                       "C) Concept 3", "D) Concept 4">>,
                         correct_answer |-> <<"A">>]]
             IN  Ret([quiz_id |-> <<"quiz_", topic.str>>, topic |-> topic.str,
                      questions |-> questions, total |-> Len(questions)])

test_save_quiz(kw) ==
    IF ~IsObj(kw.quiz_data)
    THEN Exc("AttributeError", <<"no attribute 'get'">>)
    ELSE Ret([status |-> "saved", quiz_id |-> Format(kw.quiz_id),
              file_path |-> <<"./quizzes/", Format(kw.quiz_id), ".json">>,
              question_count |-> IF "questions" \in DOMAIN kw.quiz_data.obj
                                 THEN Len(kw.quiz_data.obj.questions) ELSE 0])

calculate(kw) ==
    IF ~IsInt(kw.a) \/ ~IsInt(kw.b)
    THEN Exc("TypeError", <<"unsupported operand type(s)">>)
    ELSE LET a == kw.a.int
             b == kw.b.int
             operation == Format(kw.operation)
             result_value ==
                 CASE operation = <<"add">> -> PyInt(a + b)
                   [] operation = <<"subtract">> -> PyInt(a - b)
                   [] operation = <<"multiply">> -> PyInt(a * b)
                   [] operation = <<"divide">> /\ b # 0 -> PyInt(a \div b)
                   [] OTHER -> [none |-> TRUE]
         IN  Ret([operation |-> operation, a |-> a, b |-> b, result |-> result_value,
                  success |-> (result_value # [none |-> TRUE])])

\* AVAILABLE_TOOLS[func_name](**func_args)
CallTestTool(name, arguments) ==
    LET bound == Bind(TestParams(name), TestRequired(name), arguments)
    IN  IF Raised(bound) THEN bound
        ELSE CASE name = "generate_quiz" -> generate_quiz(bound.ret)
               [] name = "save_quiz" -> test_save_quiz(bound.ret)
               [] name = "calculate" -> calculate(bound.ret)

\* ------------------------------------------------------------------------
\* compare_modes.py: mock tool and registry
\* ------------------------------------------------------------------------
COMPARE_TOOLS == {"get_weather"}

get_weather(kw) ==
    LET unit == IF "unit" \in DOMAIN kw THEN kw.unit ELSE PyStr(<<"celsius">>)
    IN  Ret([location |-> kw.location,
             temperature |-> IF unit = PyStr(<<"celsius">>) THEN 22 ELSE 72,
             unit |-> unit, condition |-> "Sunny"])

\* TOOLS[tool_call.function.name](**args)
CallCompareTool(name, arguments) ==
    IF name \notin COMPARE_TOOLS THEN Exc("KeyError", <<name>>)
    ELSE LET bound == Bind({"location", "unit"}, {"location"}, arguments)
         IN  IF Raised(bound) THEN bound ELSE get_weather(bound.ret)

\* ------------------------------------------------------------------------
\* Response text and the functools parser of quiz_slm_fixed.py
\* A text is a sequence of tokens: words, punctuation, JSON objects.
\* ------------------------------------------------------------------------
Word(w) == [word |-> w]
Punct(c) == [ch |-> c]
JsonObj(o) == [json_obj |-> o]
IsJsonObj(tok) == "json_obj" \in DOMAIN tok
None == [none |-> TRUE]
Text(t) == [text |-> t]

\* a JSON value whose text holds a ']': a list, or a dict with a list in it
\* (the questions of a quiz, the details of a grading)
HoldsList(v) ==
    \/ IsArr(v)
    \/ IsObj(v) /\ {"questions", "details"} \cap DOMAIN v.obj # {}
\* a JSON object whose own text holds a ']' (a list-valued argument)
HasBracket(tok) ==
    /\ IsJsonObj(tok)
    /\ "arguments" \in DOMAIN tok.json_obj
    /\ \/ HoldsList(tok.json_obj.arguments)
       \/ /\ IsObj(tok.json_obj.arguments)
          /\ \E k \in DOMAIN tok.json_obj.arguments.obj :
                HoldsList(tok.json_obj.arguments.obj[k])
ClosesBracket(tok) == tok = Punct("]") \/ HasBracket(tok)

\* positions where  functools\s*\[  matches
MarkerAt(text) ==
    {i \in 1..(Len(text) - 1) : text[i] = Word("functools") /\ text[i + 1] = Punct("[")}

\* json.loads(f"[{group}]") of the tokens between the brackets
ParseArray(group) ==
    IF /\ Len(group) % 2 = 1
       /\ \A i \in 1..Len(group) :
             IF i % 2 = 1 THEN IsJsonObj(group[i]) ELSE group[i] = Punct(",")
    THEN Ret([i \in 1..((Len(group) + 1) \div 2) |-> group[2 * i - 1].json_obj])
    ELSE IF group = <<>> THEN Ret(<<>>)
    ELSE Exc("JSONDecodeError", <<"Expecting value">>)

\* re.search(r'functools\s*\[(.*)\]', response, re.DOTALL): leftmost marker,
\* greedy up to the last ']' of the text
SearchGreedy(text) ==
    LET starts == {i \in MarkerAt(text) :
                      \E j \in (i + 2)..Len(text) : ClosesBracket(text[j])}
    IN  IF starts = {} THEN None
        ELSE LET i == CHOOSE m \in starts : \A n \in starts : m <= n
                 j == CHOOSE m \in (i + 2)..Len(text) :
                        /\ ClosesBracket(text[m])
                        /\ \A n \in (m + 1)..Len(text) : ~ClosesBracket(text[n])
             IN  [group |-> SubSeq(text, i + 2, j - 1), cut |-> text[j] # Punct("]")]

\* the parser without its marker: any bracketed list in the text is taken
extract_functools_anylist(response) ==
    LET opens == {i \in 1..Len(response) : response[i] = Punct("[")}
        closes == {j \in 1..Len(response) : response[j] = Punct("]")}
    IN  IF opens = {} \/ closes = {} THEN None
        ELSE LET i == CHOOSE m \in opens : \A n \in opens : m <= n
                 j == CHOOSE m \in closes : \A n \in closes : m >= n
                 calls == ParseArray(SubSeq(response, i + 1, j - 1))
             IN  IF Raised(calls) THEN None
                 ELSE IF calls.ret = <<>> THEN None
                 ELSE PyList(calls.ret)

extract_functools(response) ==
    IF response = <<>> THEN None
    ELSE LET match == SearchGreedy(response)
         IN  IF match = None THEN None
             ELSE IF match.cut THEN None
             ELSE LET calls == ParseArray(match.group)
                  IN  IF Raised(calls) THEN None
                      ELSE IF calls.ret = <<>> THEN None
                      ELSE PyList(calls.ret)

\* compare_modes.py: re.search(r'functools\s*\[(.*?)\]', content, re.DOTALL):
\* leftmost marker, up to the first ']' after it
SearchLazy(text) ==
    LET starts == {i \in MarkerAt(text) :
                      \E j \in (i + 2)..Len(text) : ClosesBracket(text[j])}
    IN  IF starts = {} THEN None
        ELSE LET i == CHOOSE m \in starts : \A n \in starts : m <= n
                 j == CHOOSE m \in (i + 2)..Len(text) :
                        /\ ClosesBracket(text[m])
                        /\ \A n \in (i + 2)..(m - 1) : ~ClosesBracket(text[n])
             IN  [group |-> SubSeq(text, i + 2, j - 1), cut |-> text[j] # Punct("]")]

\* ------------------------------------------------------------------------
\* What the completion endpoint may answer.  A tool invocation request is a
\* name with an argument value; Malformed stands for an argument text that
\* is not JSON.
\* ------------------------------------------------------------------------
Req(name, arguments) == [name |-> name, arguments |-> arguments]
Malformed == [malformed |-> TRUE]

SourceText ==
    PyStr(<<[topic |-> "cells", len |-> 20], [topic |-> "ok", len |-> 2],
            [topic |-> "light", len |-> 30]>>)
QuizData(n) ==
    create_quiz([source_text |-> SourceText, num_questions |-> PyInt(n)],
                Env(<<>>, {}), 1).out.ret
GradingResults ==
    [quiz_id |-> QuizId(1), score |-> 1, total |-> 1,
     details |-> <<[q |-> 1, user |-> "A", correct |-> "A", result |-> "ok"]>>]

CQ == Req("create_quiz", PyDict([source_text |-> SourceText, num_questions |-> PyInt(1)]))
SQ == Req("save_quiz", PyDict([quiz_data |-> PyDict(QuizData(1))]))
LQ == Req("load_quiz", PyDict([quiz_id |-> PyStr(QuizId(1))]))
GR == Req("grade_responses",
          PyDict([quiz_id |-> PyStr(QuizId(1)), responses |-> PyList(<< <<"a">> >>)]))
CR == Req("create_report",
          PyDict([quiz_id |-> PyStr(QuizId(1)), grading_results |-> PyDict(GradingResults)]))
RegularCalls == {CQ, SQ, LQ, GR, CR}

\* calls that end in an error result or in a raised exception
SQ_invalid == Req("save_quiz", PyDict([quiz_data |-> PyDict(EmptyDict)]))
GR_missing == Req("grade_responses", PyDict([quiz_id |-> PyStr(QuizId(1))]))
GR_empty == Req("grade_responses",
                PyDict([quiz_id |-> PyStr(QuizId(1)), responses |-> PyList(<< <<>> >>)]))
CR_nototal == Req("create_report",
                  PyDict([quiz_id |-> PyStr(QuizId(1)),
                          grading_results |-> PyDict([score |-> 1])]))
LQ_extra == Req("load_quiz",
                PyDict([quiz_id |-> PyStr(QuizId(1)), verbose |-> PyInt(1)]))
LQ_list == Req("load_quiz", PyList(<< <<"q">> >>))
UNK == Req("unknown_tool", PyDict(EmptyDict))
SQ_badjson == Req("save_quiz", Malformed)
IrregularCalls ==
    {SQ_invalid, GR_missing, GR_empty, CR_nototal, LQ_extra, LQ_list, UNK, SQ_badjson}

\* the batches of one response
Batches ==
    {<<c>> : c \in RegularCalls \cup IrregularCalls}
    \cup {<<c, CQ>> : c \in {GR_missing, GR_empty, LQ_extra, SQ_badjson}}
    \cup {<<CQ, SQ>>, <<SQ, CQ>>, <<GR, CR>>}

\* structured encoding (message.tool_calls) of a batch
ToolCall(k, req) ==
    [id |-> <<"call_", k>>, name |-> req.name,
     arguments |-> IF req.arguments = Malformed THEN Garbage ELSE Dumps(req.arguments)]
Structured(batch) == [k \in 1..Len(batch) |-> ToolCall(k, batch[k])]

\* embedded-text encoding of a batch: functools[{...},{...}]
ObjToken(req) ==
    IF req.arguments = Malformed THEN Word("{oops") ELSE JsonObj(req)
RECURSIVE Joined(_)
Joined(batch) ==
    IF batch = <<>> THEN <<>>
    ELSE IF Len(batch) = 1 THEN <<ObjToken(batch[1])>>
    ELSE <<ObjToken(batch[1]), Punct(",")>> \o Joined(Tail(batch))
Functools(batch) ==
    <<Word("functools"), Punct("[")>> \o Joined(batch) \o <<Punct("]")>>

Response(content, tool_calls) == [content |-> content, tool_calls |-> tool_calls]
FinalAnswer == Response(Text(<<Word("All"), Word("done")>>), <<>>)
NullAnswer == Response(None, <<>>)
\* a response that carries both encodings, with different calls
BothEncodings == Response(Text(Functools(<<CQ>>)), Structured(<<LQ>>))
\* a marker whose list is followed by more text with a ']'
TrailingBracket ==
    Response(Text(Functools(<<CQ>>) \o <<Word("see"), Punct("]")>>), <<>>)

\* a bracketed list of call objects without the marker
BareList == Response(Text(<<Word("Example"), Punct("["), JsonObj(CQ), Punct("]")>>), <<>>)

TextResponses ==
    {Response(Text(<<Word("Calling")>> \o Functools(b)), <<>>) : b \in Batches}
StructuredResponses == {Response(None, Structured(b)) : b \in Batches}

\* requests for the tools of test_phi4_toolcalling.py
CALC == Req("calculate",
            PyDict([operation |-> PyStr(<<"multiply">>), a |-> PyInt(3), b |-> PyInt(2)]))
GQ == Req("generate_quiz", PyDict([topic |-> PyStr(<<"space">>), num_questions |-> PyInt(1)]))
TSQ == Req("save_quiz",
           PyDict([quiz_id |-> PyStr(<<"quiz_", <<"space">> >>),
                   quiz_data |-> PyDict([questions |-> <<>>])]))
CALC_missing == Req("calculate", PyDict([operation |-> PyStr(<<"add">>), a |-> PyInt(3)]))
CALC_str == Req("calculate",
                PyDict([operation |-> PyStr(<<"add">>), a |-> PyStr(<<"3">>), b |-> PyInt(2)]))
GQ_int == Req("generate_quiz", PyDict([topic |-> PyInt(7)]))
CALC_list == Req("calculate", PyList(<< <<"add">> >>))
CALC_badjson == Req("calculate", Malformed)
TestIrregular == {CALC_missing, CALC_str, GQ_int, CALC_list, CALC_badjson, UNK}
TestBatches ==
    {<<c>> : c \in {CALC, GQ, TSQ} \cup TestIrregular}
    \cup {<<c, CALC>> : c \in TestIrregular}
    \cup {<<GQ, TSQ>>, <<TSQ, GQ>>}

\* requests for the tool of compare_modes.py
GW == Req("get_weather", PyDict([location |-> PyStr(<<"London">>)]))
GW_unit == Req("get_weather",
               PyDict([location |-> PyStr(<<"Paris">>), unit |-> PyStr(<<"fahrenheit">>)]))
GW_arr == Req("get_weather", PyDict([location |-> PyList(<< <<"Paris">> >>)]))
GW_missing == Req("get_weather", PyDict([unit |-> PyStr(<<"celsius">>)]))
GW_list == Req("get_weather", PyList(<< <<"Paris">> >>))
GW_badjson == Req("get_weather", Malformed)
CompareBatches ==
    {<<c>> : c \in {GW, GW_unit, GW_arr, GW_missing, GW_list, GW_badjson, UNK}}
    \cup {<<GW, GW_unit>>, <<GW_unit, GW>>, <<UNK, GW>>, <<GW_badjson, GW>>}

Responses(p) ==
    CASE p = "fixed" ->
           TextResponses \cup {FinalAnswer, NullAnswer, BothEncodings, TrailingBracket,
                               BareList, Response(None, Structured(<<CQ>>))}
      [] p = "working" ->
           StructuredResponses \cup {FinalAnswer, NullAnswer, BothEncodings,
                                     Response(Text(Functools(<<CQ>>)), <<>>)}
      [] p = "test" ->
           {Response(None, Structured(b)) : b \in TestBatches}
           \cup {FinalAnswer, NullAnswer,
                 Response(Text(Functools(<<CALC>>)), Structured(<<GQ>>)),
                 Response(Text(Functools(<<CALC>>)), <<>>)}
      [] p = "compare" ->
           {Response(None, Structured(b)) : b \in CompareBatches}
           \cup {Response(Text(Functools(b)), <<>>) : b \in CompareBatches}
           \cup {FinalAnswer, NullAnswer,
                 Response(Text(Functools(<<GW>>)), Structured(<<GW_unit>>))}

\* what the endpoint answers to the two agents of a QuizCoordinator run
CoordinatorBatches ==
    {<<CQ>>, <<SQ>>, <<GR>>, <<CQ, SQ>>, <<GR, CR>>, <<GR_empty>>}
CoordinatorResponses(p) ==
    IF p = "fixed"
    THEN {Response(Text(<<Word("Calling")>> \o Functools(b)), <<>>) : b \in CoordinatorBatches}
         \cup {FinalAnswer, NullAnswer}
    ELSE {Response(None, Structured(b)) : b \in CoordinatorBatches}
         \cup {FinalAnswer, NullAnswer}

\* ------------------------------------------------------------------------
\* State
\* ------------------------------------------------------------------------
VARIABLES
    prog,       \* which program runs: "fixed", "working", "test", "compare"
    pc,         \* "await", "exec", "done", "max_iterations", "raised"
    iteration,  \* completion requests made by the running loop
    messages,   \* the conversation
    response,   \* the last response of the endpoint
    calls,      \* the tool calls taken from that response
    idx,        \* index of the next call of the batch
    context,    \* the agent context
    env,        \* quiz store and report files
    clock,      \* last second read by datetime.now()
    varied,     \* free answers the endpoint has given
    raised,     \* the exception that left the loop
    result,     \* what the loop returned
    executed,   \* history: the calls handled, with what the executor gave
    scanned,    \* history: the text of the last response was searched
    phase,      \* QuizCoordinator.run: "phase1", "phase3", "aborted", "finished";
                \* "none" when a loop runs on its own
    request     \* history: the last completion request sent to the endpoint

vars == <<prog, phase, pc, iteration, messages, response, calls, idx, context, env,
          clock, varied, raised, result, executed, scanned, request>>

Pending == [pending |-> TRUE]
Task == [role |-> "user", content |-> Text(<<Word("task")>>)]
GraderTask == [role |-> "user", content |-> Text(<<Word("Grade"), Word("quiz")>>)]
\* a loop that takes str(content) where the code takes `content or ""`
ContentOrEmpty_str(content) == IF content = None THEN <<Word("None")>> ELSE content.text
\* message.content or ""
ContentOrEmpty(content) == IF content = None THEN <<>> ELSE content.text

\* the tool subsets the two agents are constructed with
QuizMasterTools == {"create_quiz", "save_quiz"}
GraderTools == {"load_quiz", "grade_responses", "create_report"}
\* self.tool_schemas of the agent that runs in a phase
DeclaredTools(ph) ==
    IF ph = "phase1" THEN QuizMasterTools
    ELSE IF ph = "phase3" THEN GraderTools
    ELSE {}
\* self.tool_schemas of the running agent; an agent that runs on its own is
\* built with the whole registry
tool_schemas == IF phase = "none" THEN TOOLS ELSE DeclaredTools(phase)
\* client.chat.completions.create(messages=..., tools=...)
Create(msgs, tools) == [messages |-> msgs, tools |-> tools]
\* client.chat.completions.create(messages=...) with no tools parameter
CreateWithoutTools(msgs) == [messages |-> msgs]

\* the endpoint answers freely MaxVaried times, then repeats itself
Answers ==
    IF varied < MaxVaried
    THEN IF phase = "none" THEN Responses(prog) ELSE CoordinatorResponses(prog)
    ELSE {response}
Nows(name) == IF name = "save_quiz" THEN {clock, Min(clock + 1, MaxClock)} ELSE {clock}

Executed(id, name, arguments, out, origin) ==
    [id |-> id, name |-> name, arguments |-> arguments, out |-> out, origin |-> origin]
\* where a fault of TOOLS[name](**arguments) comes from
Origin(name, arguments) ==
    IF name \notin TOOLS THEN "lookup"
    ELSE IF Raised(Bind(Params(name), Params(name), arguments)) THEN "bind"
    ELSE "body"

\* a projection keyed by the tool name alone, whatever the result holds
\* res.get(key)
Get_field(res, key) == IF key \in DOMAIN res THEN res[key] ELSE None
UpdateContext_by_name(ctx, tool_name, res) ==
    IF tool_name = "create_quiz" THEN ("quiz_data" :> res) @@ ctx
    ELSE IF tool_name = "save_quiz" THEN ("quiz_id" :> Get_field(res, "quiz_id")) @@ ctx
    ELSE IF tool_name = "grade_responses" THEN ("grading_results" :> res) @@ ctx
    ELSE IF tool_name = "create_report" THEN ("report_path" :> Get_field(res, "path")) @@ ctx
    ELSE ctx
\* a projection keyed by the fields of the result, whatever tool returned it
UpdateContext_by_field(ctx, tool_name, res) ==
    IF "questions" \in DOMAIN res THEN ("quiz_data" :> res) @@ ctx
    ELSE IF "quiz_id" \in DOMAIN res THEN ("quiz_id" :> res.quiz_id) @@ ctx
    ELSE IF "score" \in DOMAIN res THEN ("grading_results" :> res) @@ ctx
    ELSE IF "path" \in DOMAIN res THEN ("report_path" :> res.path) @@ ctx
    ELSE ctx
\* the tool-name-keyed projection of a result into the context
UpdateContext(ctx, tool_name, res) ==
    IF tool_name = "create_quiz" /\ "questions" \in DOMAIN res
    THEN ("quiz_data" :> res) @@ ctx
    ELSE IF tool_name = "save_quiz" /\ "quiz_id" \in DOMAIN res
    THEN ("quiz_id" :> res.quiz_id) @@ ctx
    ELSE IF tool_name = "grade_responses" /\ "score" \in DOMAIN res
    THEN ("grading_results" :> res) @@ ctx
    ELSE IF tool_name = "create_report" /\ "path" \in DOMAIN res
    THEN ("report_path" :> res.path) @@ ctx
    ELSE ctx

\* ------------------------------------------------------------------------
\* quiz_slm_fixed.py  Agent.run
\* ------------------------------------------------------------------------
max_iterations_fixed == 6

FixedRequest ==
    /\ prog = "fixed" /\ pc = "await" /\ iteration < max_iterations_fixed
    /\ \E r \in Answers :
         LET content == ContentOrEmpty(r.content)
             func_calls == extract_functools(content)
         IN  /\ response' = r
             /\ varied' = IF varied < MaxVaried THEN varied + 1 ELSE varied
             /\ iteration' = iteration + 1
             /\ scanned' = (content # <<>>)
             /\ IF func_calls = None
                THEN /\ context' = ("summary" :> content) @@ context
                     /\ pc' = "done"
                     /\ result' = context'
                     /\ calls' = <<>>
                     /\ UNCHANGED messages
                ELSE /\ messages' = Append(messages,
                                       [role |-> "assistant", content |-> Text(content)])
                     /\ calls' = func_calls.arr
                     /\ pc' = "exec"
                     /\ UNCHANGED <<context, result>>
             /\ idx' = 1
    /\ request' = Create(messages, tool_schemas)
    /\ UNCHANGED <<prog, phase, env, clock, raised, executed>>

\* a loop that notes the failure of the endpoint and sends the request again
FixedRequestFails_retry ==
    /\ prog = "fixed" /\ pc = "await" /\ iteration < max_iterations_fixed
    /\ varied < MaxVaried
    /\ varied' = varied + 1
    /\ iteration' = iteration + 1
    /\ pc' = "await"
    /\ raised' = [exc |-> "APIConnectionError", origin |-> "endpoint"]
    /\ request' = Create(messages, tool_schemas)
    /\ UNCHANGED <<prog, phase, messages, response, calls, idx, context, env, clock,
                   result, executed, scanned>>
\* client.chat.completions.create(...) raises: Agent.run has no handler around
\* it, the request is not repeated and the exception leaves the loop.  A
\* failure is one of the MaxVaried free answers of the endpoint.
FixedRequestFails ==
    /\ prog = "fixed" /\ pc = "await" /\ iteration < max_iterations_fixed
    /\ varied < MaxVaried
    /\ varied' = varied + 1
    /\ iteration' = iteration + 1
    /\ pc' = "raised"
    /\ raised' = [exc |-> "APIConnectionError", origin |-> "endpoint"]
    /\ request' = Create(messages, tool_schemas)
    /\ UNCHANGED <<prog, phase, messages, response, calls, idx, context, env, clock,
                   result, executed, scanned>>

FixedExecute ==
    /\ prog = "fixed" /\ pc = "exec"
    /\ LET call == calls[idx]
           tool_name == call.name
           arguments == IF "arguments" \in DOMAIN call THEN call.arguments
                        ELSE PyDict(EmptyDict)
       IN  \E now \in Nows(tool_name) :
             LET done == execute_tool(tool_name, arguments, env, now)
             IN  /\ clock' = now
                 /\ env' = done.env
                 /\ executed' = Append(executed,
                        Executed(None, tool_name, arguments, done.out, Origin(tool_name, arguments)))
                 /\ IF Raised(done.out)
                    THEN /\ pc' = "raised"
                         /\ raised' = [exc |-> done.out.exc,
                                       origin |-> Origin(tool_name, arguments)]
                         /\ UNCHANGED <<context, messages, idx>>
                    ELSE /\ context' = UpdateContext(context, tool_name, done.out.ret)
                         /\ messages' = Append(messages,
                                [role |-> "user",
                                 content |-> [tool |-> tool_name,
                                              returned |-> Dumps(done.out.ret)]])
                         /\ idx' = idx + 1
                         /\ pc' = IF idx = Len(calls) THEN "await" ELSE "exec"
                         /\ UNCHANGED raised
    /\ UNCHANGED <<request, prog, phase, iteration, response, calls, varied, result, scanned>>

FixedReturn ==
    /\ prog = "fixed" /\ pc = "await" /\ iteration = max_iterations_fixed
    /\ pc' = "max_iterations"
    /\ result' = context
    /\ UNCHANGED <<request, prog, phase, iteration, messages, response, calls, idx, context, env,
                   clock, varied, raised, executed, scanned>>

\* ------------------------------------------------------------------------
\* quiz_slm_working.py  Agent.run
\* ------------------------------------------------------------------------
max_iterations_working == 8

WorkingRequest ==
    /\ prog = "working" /\ pc = "await" /\ iteration < max_iterations_working
    /\ \E message \in Answers :
         LET content == ContentOrEmpty(message.content)
             tool_calls == message.tool_calls
         IN  /\ response' = message
             /\ varied' = IF varied < MaxVaried THEN varied + 1 ELSE varied
             /\ iteration' = iteration + 1
             /\ scanned' = FALSE
             /\ IF tool_calls = <<>>
                THEN /\ context' = ("summary" :> content) @@ context
                     /\ pc' = "done"
                     /\ result' = context'
                     /\ UNCHANGED messages
                ELSE /\ messages' = Append(messages,
                                       [role |-> "assistant", content |-> message.content,
                                        tool_calls |-> tool_calls])
                     /\ pc' = "exec"
                     /\ UNCHANGED <<context, result>>
             /\ calls' = tool_calls
             /\ idx' = 1
    /\ request' = Create(messages, tool_schemas)
    /\ UNCHANGED <<prog, phase, env, clock, raised, executed>>

\* client.chat.completions.create(...) raises: Agent.run has no handler around
\* it, the request is not repeated and the exception leaves the loop.  A
\* failure is one of the MaxVaried free answers of the endpoint.
WorkingRequestFails ==
    /\ prog = "working" /\ pc = "await" /\ iteration < max_iterations_working
    /\ varied < MaxVaried
    /\ varied' = varied + 1
    /\ iteration' = iteration + 1
    /\ pc' = "raised"
    /\ raised' = [exc |-> "APIConnectionError", origin |-> "endpoint"]
    /\ request' = Create(messages, tool_schemas)
    /\ UNCHANGED <<prog, phase, messages, response, calls, idx, context, env, clock,
                   result, executed, scanned>>

\* what the structured loop does with one tool call: json.loads of the
\* argument string, then TOOLS[function_name](**function_args) or the
\* unknown-tool result; nothing is caught
WorkingCall(function_name, arguments, store, now) ==
    LET function_args == Loads(arguments)
    IN  IF Raised(function_args) THEN Out(function_args, store)
        ELSE IF function_name \in TOOLS
        THEN CallTool(function_name, function_args.ret, store, now)
        ELSE Out(Ret([error |-> <<"Unknown tool: ", function_name>>]), store)

WorkingExecute ==
    /\ prog = "working" /\ pc = "exec"
    /\ LET tool_call == calls[idx]
           function_name == tool_call.name
           function_args == Loads(tool_call.arguments)
       IN  \E now \in Nows(function_name) :
             LET done == WorkingCall(function_name, tool_call.arguments, env, now)
                 origin == IF Raised(function_args) THEN "json"
                           ELSE Origin(function_name, function_args.ret)
             IN  /\ clock' = now
                 /\ env' = done.env
                 /\ executed' = Append(executed,
                        Executed(tool_call.id, function_name, tool_call.arguments, done.out, origin))
                 /\ IF Raised(done.out)
                    THEN /\ pc' = "raised"
                         /\ raised' = [exc |-> done.out.exc, origin |-> origin]
                         /\ UNCHANGED <<context, messages, idx>>
                    ELSE /\ context' = UpdateContext(context, function_name, done.out.ret)
                         /\ messages' = Append(messages,
                                [role |-> "tool", tool_call_id |-> tool_call.id,
                                 name |-> function_name,
                                 content |-> Dumps(done.out.ret)])
                         /\ idx' = idx + 1
                         /\ pc' = IF idx = Len(calls) THEN "await" ELSE "exec"
                         /\ UNCHANGED raised
    /\ UNCHANGED <<request, prog, phase, iteration, response, calls, varied, result, scanned>>

WorkingReturn ==
    /\ prog = "working" /\ pc = "await" /\ iteration = max_iterations_working
    /\ pc' = "max_iterations"
    /\ result' = context
    /\ UNCHANGED <<request, prog, phase, iteration, messages, response, calls, idx, context, env,
                   clock, varied, raised, executed, scanned>>

\* ------------------------------------------------------------------------
\* test_phi4_toolcalling.py  test_tool_calling
\* ------------------------------------------------------------------------
max_iterations_test == 5

TestRequest ==
    /\ prog = "test" /\ pc = "await" /\ iteration < max_iterations_test
    /\ \E message \in Answers :
         /\ response' = message
         /\ varied' = IF varied < MaxVaried THEN varied + 1 ELSE varied
         /\ iteration' = iteration + 1
         /\ scanned' = FALSE
         /\ IF message.tool_calls = <<>>
            THEN /\ pc' = "done"
                 /\ result' = message.content
                 /\ UNCHANGED messages
            ELSE /\ messages' = Append(messages,
                                   [role |-> "assistant", content |-> message.content,
                                    tool_calls |-> message.tool_calls])
                 /\ pc' = "exec"
                 /\ UNCHANGED result
         /\ calls' = message.tool_calls
         /\ idx' = 1
    /\ request' = Create(messages, AVAILABLE_TOOLS)
    /\ UNCHANGED <<prog, phase, context, env, clock, raised, executed>>

TestExecute ==
    /\ prog = "test" /\ pc = "exec"
    /\ LET tool_call == calls[idx]
           func_name == tool_call.name
           func_args == Loads(tool_call.arguments)
           called == CallTestTool(func_name, func_args.ret)
           res == IF func_name \in AVAILABLE_TOOLS
                  THEN IF Raised(called) THEN [error |-> called.msg] ELSE called.ret
                  ELSE [error |-> <<"Unknown function: ", func_name>>]
           origin == IF Raised(func_args) THEN "json"
                     ELSE IF func_name \notin AVAILABLE_TOOLS THEN "lookup"
                     ELSE IF Raised(Bind(TestParams(func_name), TestRequired(func_name),
                                         func_args.ret)) THEN "bind"
                     ELSE "body"
       IN  /\ IF Raised(func_args)
              \* except json.JSONDecodeError: continue
              THEN /\ executed' = Append(executed,
                          Executed(tool_call.id, func_name, tool_call.arguments, func_args, origin))
                   /\ UNCHANGED messages
              ELSE /\ executed' = Append(executed,
                          Executed(tool_call.id, func_name, tool_call.arguments, Ret(res), origin))
                   /\ messages' = Append(messages,
                          [role |-> "tool", tool_call_id |-> tool_call.id,
                           name |-> func_name, content |-> Dumps(res)])
           /\ idx' = idx + 1
           /\ pc' = IF idx = Len(calls) THEN "await" ELSE "exec"
    /\ UNCHANGED <<request, prog, phase, iteration, response, calls, context, env, clock, varied,
                   raised, result, scanned>>

TestReturn ==
    /\ prog = "test" /\ pc = "await" /\ iteration = max_iterations_test
    /\ pc' = "max_iterations"
    /\ result' = None
    /\ UNCHANGED <<request, prog, phase, iteration, messages, response, calls, idx, context, env,
                   clock, varied, raised, executed, scanned>>

\* ------------------------------------------------------------------------
\* compare_modes.py  test_mode_a (with test_mode_b_from_response)
\* ------------------------------------------------------------------------
CompareRequest ==
    /\ prog = "compare" /\ pc = "await" /\ iteration = 0
    /\ \E message \in Answers :
         /\ response' = message
         /\ varied' = IF varied < MaxVaried THEN varied + 1 ELSE varied
         /\ iteration' = 1
         /\ idx' = 1
         /\ IF message.tool_calls # <<>>
            THEN /\ calls' = message.tool_calls
                 /\ scanned' = FALSE
                 /\ pc' = "exec"
                 /\ UNCHANGED <<raised, result>>
            ELSE IF message.content = None
            \* re.search(pattern, None)
            THEN /\ calls' = <<>>
                 /\ scanned' = FALSE
                 /\ pc' = "raised"
                 /\ raised' = [exc |-> "TypeError", origin |-> "scan"]
                 /\ UNCHANGED result
            ELSE LET functools_match == SearchLazy(message.content.text)
                     tool_calls == IF functools_match = None \/ functools_match.cut
                                   THEN Exc("JSONDecodeError", <<"Expecting value">>)
                                   ELSE ParseArray(functools_match.group)
                 IN  /\ scanned' = TRUE
                     /\ IF functools_match = None \/ Raised(tool_calls) \/ tool_calls.ret = <<>>
                        THEN /\ calls' = <<>>
                             /\ pc' = "done"
                             /\ result' = None
                        ELSE /\ calls' = tool_calls.ret
                             /\ pc' = "exec"
                             /\ UNCHANGED result
                     /\ UNCHANGED raised
    /\ request' = Create(messages, COMPARE_TOOLS)
    /\ UNCHANGED <<prog, phase, messages, context, env, clock, executed>>

\* one tool call of the structured list
CompareExecute ==
    /\ prog = "compare" /\ pc = "exec" /\ ~scanned
    /\ LET tool_call == calls[idx]
           args == Loads(tool_call.arguments)
           called == IF Raised(args) THEN args ELSE CallCompareTool(tool_call.name, args.ret)
           origin == IF Raised(args) THEN "json"
                     ELSE IF tool_call.name \notin COMPARE_TOOLS THEN "lookup"
                     ELSE "bind"
       IN  /\ executed' = Append(executed,
                  Executed(tool_call.id, tool_call.name, tool_call.arguments, called, origin))
           /\ IF Raised(called)
              THEN /\ pc' = "raised"
                   /\ raised' = [exc |-> called.exc, origin |-> origin]
                   /\ UNCHANGED <<messages, idx>>
              ELSE /\ messages' = messages \o
                          <<[role |-> "assistant", content |-> response.content,
                             tool_calls |-> response.tool_calls],
                            [role |-> "tool", tool_call_id |-> tool_call.id,
                             name |-> tool_call.name, content |-> Dumps(called.ret)]>>
                   /\ idx' = idx + 1
                   /\ pc' = IF idx = Len(calls) THEN "await" ELSE "exec"
                   /\ UNCHANGED raised
    /\ UNCHANGED <<request, prog, phase, iteration, response, calls, context, env, clock, varied,
                   result, scanned>>

\* one call parsed from the text by test_mode_b_from_response
CompareExecuteText ==
    /\ prog = "compare" /\ pc = "exec" /\ scanned
    /\ LET call == calls[idx]
           func_name == call.name
           func_args == IF "arguments" \in DOMAIN call THEN call.arguments
                        ELSE PyDict(EmptyDict)
           called == CallCompareTool(func_name, func_args)
           origin == IF func_name \notin COMPARE_TOOLS THEN "lookup" ELSE "bind"
       IN  /\ executed' = Append(executed, Executed(None, func_name, func_args, called, origin))
           /\ IF Raised(called)
              THEN /\ pc' = "raised"
                   /\ raised' = [exc |-> called.exc, origin |-> origin]
                   /\ UNCHANGED <<idx, result>>
              ELSE /\ idx' = idx + 1
                   /\ pc' = IF idx = Len(calls) THEN "done" ELSE "exec"
                   /\ result' = IF idx = Len(calls) THEN None ELSE result
                   /\ UNCHANGED raised
    /\ UNCHANGED <<request, prog, phase, iteration, messages, response, calls, context, env, clock,
                   varied, scanned>>

\* the second request of test_mode_a, made without tool declarations
CompareFinalRequest ==
    /\ prog = "compare" /\ pc = "await" /\ iteration = 1
    /\ \E final_response \in Answers :
         /\ response' = final_response
         /\ varied' = IF varied < MaxVaried THEN varied + 1 ELSE varied
    /\ iteration' = 2
    /\ pc' = "done"
    /\ result' = None
    /\ request' = CreateWithoutTools(messages)
    /\ UNCHANGED <<prog, phase, messages, calls, idx, context, env, clock, raised,
                   executed, scanned>>

\* ------------------------------------------------------------------------
\* Runs of one loop
\* ------------------------------------------------------------------------
Programs == {"fixed", "working", "test", "compare"}
SavedQuiz == json_dump([quiz_id |-> QuizId(1), questions |-> QuizData(1).questions])

Init ==
    /\ prog \in Programs
    /\ phase = "none"
    /\ pc = "await"
    /\ iteration = 0
    /\ messages = <<Task>>
    /\ response = NullAnswer
    /\ calls = <<>>
    /\ idx = 1
    /\ \E i \in {1, 2} :
         /\ env = (IF i = 1 THEN Env(<<>>, {}) ELSE Env(QuizId(1) :> SavedQuiz, {}))
         /\ context = (IF i = 1 THEN EmptyDict
                       ELSE [quiz_id |-> QuizId(1), responses |-> << <<"A">> >>])
    /\ clock = 1
    /\ varied = 0
    /\ raised = Pending
    /\ result = Pending
    /\ executed = <<>>
    /\ scanned = FALSE
    /\ request = None

Next ==
    \/ FixedRequest \/ FixedRequestFails \/ FixedExecute \/ FixedReturn
    \/ WorkingRequest \/ WorkingRequestFails \/ WorkingExecute \/ WorkingReturn
    \/ TestRequest \/ TestExecute \/ TestReturn
    \/ CompareRequest \/ CompareExecute \/ CompareExecuteText \/ CompareFinalRequest

Spec == Init /\ [][Next]_vars

\* ------------------------------------------------------------------------
\* QuizCoordinator.run of quiz_slm_fixed.py and of quiz_slm_working.py:
\* the producer loop (QuizMaster), the hand-over, the consumer loop (Grader)
\* ------------------------------------------------------------------------
\* what the user types in phase two, after split(",") / strip() / upper()
UserResponses == {<< <<"A">> >>, << <<>> >>}
\* num_questions of the run
NumQuestions == {0, 2}
\* a hand-over that does not wait for the loop
Returned_always == TRUE
\* agent.run(...) has returned its context
Returned == pc \in {"done", "max_iterations"}

\* a Grader that goes on with the conversation of the producer
StartGrader_same_conversation(quiz_id, responses) ==
    /\ phase' = "phase3"
    /\ pc' = "await"
    /\ iteration' = 0
    /\ messages' = Append(messages, GraderTask)
    /\ context' = [quiz_id |-> quiz_id, responses |-> responses]
    /\ calls' = <<>>
    /\ idx' = 1
    /\ result' = Pending
\* a Grader that is handed the whole context of the producer
StartGrader_whole_context(quiz_id, responses) ==
    /\ phase' = "phase3"
    /\ pc' = "await"
    /\ iteration' = 0
    /\ messages' = <<GraderTask>>
    /\ context' = [quiz_id |-> quiz_id, responses |-> responses] @@ result
    /\ calls' = <<>>
    /\ idx' = 1
    /\ result' = Pending
\* self.grader.run(task, {"quiz_id": quiz_id, "responses": responses})
StartGrader(quiz_id, responses) ==
    /\ phase' = "phase3"
    /\ pc' = "await"
    /\ iteration' = 0
    /\ messages' = <<GraderTask>>
    /\ context' = [quiz_id |-> quiz_id, responses |-> responses]
    /\ calls' = <<>>
    /\ idx' = 1
    /\ result' = Pending

\* a get that answers a made-up identifier for a missing key
Get_default(d, key) == IF key \in DOMAIN d THEN d[key] ELSE QuizId(0)
\* context.get(key)
Get(d, key) == IF key \in DOMAIN d THEN d[key] ELSE None
\* a hand-over test that never fires
NotQuizId_never(quiz_id) == FALSE
\* `if not quiz_id:`
NotQuizId(quiz_id) == quiz_id = None \/ quiz_id = <<>>

\* context.get("quiz_data", {}).get("questions", []): what phase two prints
QuestionsShown(ctx) ==
    LET quiz_data == IF "quiz_data" \in DOMAIN ctx THEN ctx.quiz_data ELSE EmptyDict
    IN  IF "questions" \in DOMAIN quiz_data THEN quiz_data.questions ELSE <<>>

\* quiz_slm_fixed.py: after quiz_master.run returned
FixedHandOver ==
    /\ prog = "fixed" /\ phase = "phase1" /\ Returned
    /\ LET quiz_id == Get(result, "quiz_id")
       IN  IF NotQuizId(quiz_id)
           THEN /\ phase' = "aborted"
                /\ UNCHANGED <<pc, iteration, messages, context, calls, idx, result>>
           ELSE \E responses \in UserResponses : StartGrader(quiz_id, responses)
    /\ UNCHANGED <<request, prog, response, env, clock, varied, raised, executed, scanned>>

\* quiz_slm_working.py: after quiz_master.run returned, with the fallback
WorkingHandOver ==
    /\ prog = "working" /\ phase = "phase1" /\ Returned
    /\ IF ~NotQuizId(Get(result, "quiz_id"))
       THEN /\ \E responses \in UserResponses :
                 StartGrader(Get(result, "quiz_id"), responses)
            /\ UNCHANGED <<env, clock>>
       ELSE \E num_questions \in NumQuestions, now \in Nows("save_quiz") :
              LET quiz_result ==
                      create_quiz([source_text |-> SourceText,
                                   num_questions |-> PyInt(num_questions)], env, now).out.ret
                  saved == save_quiz([quiz_data |-> PyDict(quiz_result)], env, now)
                  quiz_id == Get(saved.out.ret, "quiz_id")
              IN  /\ env' = saved.env
                  /\ clock' = now
                  /\ IF NotQuizId(quiz_id)
                     THEN /\ phase' = "aborted"
                          /\ context' = ("quiz_id" :> quiz_id) @@ ("quiz_data" :> quiz_result)
                                        @@ result
                          /\ UNCHANGED <<pc, iteration, messages, calls, idx, result>>
                     ELSE \E responses \in UserResponses : StartGrader(quiz_id, responses)
    /\ UNCHANGED <<request, prog, response, varied, raised, executed, scanned>>

\* after grader.run returned: the results are printed and run ends
CoordinatorResults ==
    /\ phase = "phase3" /\ Returned
    /\ phase' = "finished"
    /\ UNCHANGED <<request, prog, pc, iteration, messages, response, calls, idx, context, env,
                   clock, varied, raised, result, executed, scanned>>

InitCoord ==
    /\ prog \in {"fixed", "working"}
    /\ phase = "phase1"
    /\ pc = "await"
    /\ iteration = 0
    /\ messages = <<Task>>
    /\ response = NullAnswer
    /\ calls = <<>>
    /\ idx = 1
    /\ env = Env(<<>>, {})
    /\ context = EmptyDict
    /\ clock = 1
    /\ varied = 0
    /\ raised = Pending
    /\ result = Pending
    /\ executed = <<>>
    /\ scanned = FALSE
    /\ request = None

NextCoord ==
    \/ FixedRequest \/ FixedRequestFails \/ FixedExecute \/ FixedReturn
    \/ WorkingRequest \/ WorkingRequestFails \/ WorkingExecute \/ WorkingReturn
    \/ FixedHandOver \/ WorkingHandOver \/ CoordinatorResults

SpecCoord == InitCoord /\ [][NextCoord]_vars

\* ------------------------------------------------------------------------
\* The two text parsers alone: extract_functools of quiz_slm_fixed.py and
\* test_mode_b_from_response of compare_modes.py, applied to one text
\* ------------------------------------------------------------------------
\* free text around the marker; the longest epilogue holds a ']'
Before == {<<>>, <<Word("Calling")>>}
After == {<<>>, <<Word("done")>>, <<Word("see"), Punct("["), Word("1"), Punct("]")>>}
\* lists of well-formed {name, arguments} objects
WellFormedBatches ==
    {<<CQ>>, <<LQ>>, <<GR>>, <<UNK>>, <<GW>>, <<GW_arr>>, <<CQ, SQ>>, <<GR, CR>>,
     <<GW, GW_unit>>}
\* payloads that are not a JSON list of objects
BrokenPayloads ==
    {<<Word("{oops")>>, <<JsonObj(CQ), JsonObj(SQ)>>, <<JsonObj(GW), Punct(",")>>}
MarkerWith(payload) == <<Word("functools"), Punct("[")>> \o payload \o <<Punct("]")>>
ParserTexts ==
    {b \o Functools(batch) \o a : b \in Before, batch \in WellFormedBatches, a \in After}
    \cup {b \o MarkerWith(p) \o a : b \in Before, p \in BrokenPayloads, a \in After}
    \cup {FinalAnswer.content.text, BareList.content.text, MarkerWith(<<>>),
          <<Word("functools"), Word("is"), Word("unused")>>}

\* func_calls = extract_functools(content)
ExtractFunctools ==
    /\ prog = "extract_functools" /\ pc = "scan"
    /\ LET func_calls == extract_functools(response.content.text)
       IN  /\ result' = func_calls
           /\ calls' = IF func_calls = None THEN <<>> ELSE func_calls.arr
    /\ scanned' = TRUE
    /\ pc' = "done"
    /\ UNCHANGED <<request, prog, phase, iteration, messages, response, idx, context, env, clock,
                   varied, raised, executed>>

\* test_mode_b_from_response(content): the search and the parse
ModeBScan ==
    /\ prog = "compare" /\ pc = "scan"
    /\ LET functools_match == SearchLazy(response.content.text)
           tool_calls == IF functools_match = None \/ functools_match.cut
                         THEN Exc("JSONDecodeError", <<"Expecting value">>)
                         ELSE ParseArray(functools_match.group)
       IN  /\ scanned' = TRUE
           /\ IF functools_match = None \/ Raised(tool_calls) \/ tool_calls.ret = <<>>
              THEN /\ calls' = <<>>
                   /\ pc' = "done"
                   /\ result' = None
              ELSE /\ calls' = tool_calls.ret
                   /\ pc' = "exec"
                   /\ UNCHANGED result
    /\ UNCHANGED <<request, prog, phase, iteration, messages, response, idx, context, env, clock,
                   varied, raised, executed>>

InitParser ==
    /\ prog \in {"extract_functools", "compare"}
    /\ phase = "none"
    /\ pc = "scan"
    /\ iteration = 1
    /\ messages = <<Task>>
    /\ response \in {Response(Text(t), <<>>) : t \in ParserTexts}
    /\ calls = <<>>
    /\ idx = 1
    /\ env = Env(<<>>, {})
    /\ context = EmptyDict
    /\ clock = 1
    /\ varied = MaxVaried
    /\ raised = Pending
    /\ result = Pending
    /\ executed = <<>>
    /\ scanned = FALSE
    /\ request = None

NextParser == ExtractFunctools \/ ModeBScan \/ CompareExecuteText

SpecParser == InitParser /\ [][NextParser]_vars

\* ------------------------------------------------------------------------
\* The tools called through execute_tool of quiz_slm_fixed.py, one call
\* after the other on the quiz store, with arguments of every shape the
\* tool bodies distinguish
\* ------------------------------------------------------------------------
\* longest source text, in '.'-separated pieces
MaxSentences == 2
\* largest num_questions asked for
MaxQuestions == 3
\* longest list of responses
MaxResponses == 3

SeqsUpTo(S, n) == UNION {[1..k -> S] : k \in 0..n}

\* pieces of 10 characters and less are no sentences of create_quiz
CreateQuizCalls ==
    LET Pieces == {[topic |-> "ten", len |-> 10], [topic |-> "cells", len |-> 11],
                   [topic |-> "light", len |-> 30]}
    IN  {Req("create_quiz",
             PyDict([source_text |-> PyStr(text), num_questions |-> PyInt(n)])) :
            text \in SeqsUpTo(Pieces, MaxSentences), n \in -1..MaxQuestions}

SaveQuizCalls ==
    LET \* a quiz written by the model itself, with answer keys of its own
        OwnQuiz ==
            [questions |-> <<[Question(1, "cells") EXCEPT !.correct_answer = <<"B">>],
                             [Question(2, "light") EXCEPT !.correct_answer = <<"X">>]>>,
             count |-> 2]
        \* quiz_data sent as JSON text instead of a JSON object
        JsonText == PyStr(<<"{", "questions", "}">>)
    IN  {SQ, SQ_invalid} \cup
        {Req("save_quiz", PyDict([quiz_data |-> quiz_data])) :
            quiz_data \in {PyDict(QuizData(2)), PyDict(OwnQuiz), JsonText, PyStr(<<"quiz">>)}}

GradeResponsesCalls ==
    {Req("grade_responses",
         PyDict([quiz_id |-> PyStr(QuizId(t)), responses |-> PyList(r)])) :
        t \in 1..MaxClock, r \in SeqsUpTo({<<"a">>, <<"B", "c">>}, MaxResponses)}

ToolCalls ==
    CreateQuizCalls \cup SaveQuizCalls \cup GradeResponsesCalls
    \cup {Req("load_quiz", PyDict([quiz_id |-> PyStr(QuizId(t))])) : t \in 1..MaxClock}
    \cup {CR, CR_nototal}
    \cup {Req("create_report",
              PyDict([quiz_id |-> PyStr(QuizId(1)), grading_results |-> g])) :
             g \in {PyStr(<<"score">>), PyDict(EmptyDict)}}

\* result = execute_tool(call["name"], call.get("arguments", {}))
ExecuteTool ==
    /\ prog = "execute_tool" /\ pc = "exec"
    /\ LET call == calls[idx]
       IN  \E now \in Nows(call.name) :
             LET done == execute_tool(call.name, call.arguments, env, now)
             IN  /\ clock' = now
                 /\ env' = done.env
                 /\ executed' = Append(executed,
                        Executed(None, call.name, call.arguments, done.out,
                                 Origin(call.name, call.arguments)))
                 /\ IF Raised(done.out)
                    THEN /\ pc' = "raised"
                         /\ raised' = [exc |-> done.out.exc,
                                       origin |-> Origin(call.name, call.arguments)]
                         /\ UNCHANGED idx
                    ELSE /\ idx' = idx + 1
                         /\ pc' = IF idx = Len(calls) THEN "done" ELSE "exec"
                         /\ UNCHANGED raised
    /\ UNCHANGED <<request, prog, phase, iteration, messages, response, calls, context,
                   varied, result, scanned>>

InitTools ==
    /\ prog = "execute_tool"
    /\ phase = "none"
    /\ pc = "exec"
    /\ iteration = 0
    /\ messages = <<Task>>
    /\ response = NullAnswer
    /\ calls \in {<<c>> : c \in ToolCalls}
                 \cup {<<s, c>> : s \in SaveQuizCalls, c \in ToolCalls}
    /\ idx = 1
    /\ env = Env(<<>>, {})
    /\ context = EmptyDict
    /\ clock = 1
    /\ varied = MaxVaried
    /\ raised = Pending
    /\ result = Pending
    /\ executed = <<>>
    /\ scanned = FALSE
    /\ request = None

NextTools == ExecuteTool

SpecTools == InitTools /\ [][NextTools]_vars

\* ------------------------------------------------------------------------
\* Properties
\* ------------------------------------------------------------------------
\* the orchestration loops with an iteration ceiling
Loops == {"fixed", "working", "test"}
HasMarker(content) == content # None /\ Word("functools") \in Range(content.text)
NoCallAnswer(r) == r.tool_calls = <<>> /\ ~HasMarker(r.content)
EndpointFailed == raised # Pending /\ raised.origin = "endpoint"

\* C6: a response with no structured calls and no functools marker yields
\* zero tool calls and ends the loop in DONE on that iteration: no tool is
\* executed for it, and after DONE no request is made and no tool executed.
C6_NoCallsEndInDone ==
    [][/\ (/\ prog \in Loops /\ iteration' = iteration + 1 /\ ~EndpointFailed'
           /\ NoCallAnswer(response'))
          => (pc' = "done" /\ calls' = <<>> /\ executed' = executed)
       /\ (prog \in Loops /\ pc = "done")
          => (iteration' = iteration /\ executed' = executed /\ pc' = "done")]_vars

C6_Witness ==
    /\ prog \in Loops /\ pc = "done" /\ NoCallAnswer(response)
    /\ iteration = 2 /\ executed # <<>>

ProducerGaveNoQuizId == phase = "phase1" /\ Returned /\ "quiz_id" \notin DOMAIN result

Ceiling(p) ==
    IF p = "fixed" THEN max_iterations_fixed
    ELSE IF p = "working" THEN max_iterations_working
    ELSE max_iterations_test
AssistantTurns == Cardinality({i \in DOMAIN messages : messages[i].role = "assistant"})
Ended == pc \in {"done", "max_iterations", "raised"}
ObservationOf(m, call) ==
    IF prog = "fixed"
    THEN m.role = "user" /\ "tool" \in DOMAIN m.content /\ m.content.tool = call.name
    ELSE m.role = "tool" /\ m.tool_call_id = call.id /\ m.name = call.name

\* C1: once a batch of n tool calls has been worked off, the last n
\* executions are the listed calls in the listed order, and the conversation
\* ends with the assistant turn that requested them followed by exactly n
\* observation turns, one per call, in that order.
C1_OneObservationPerCall ==
    (prog \in Loops /\ iteration > 0 /\ calls # <<>> /\ pc \in {"await", "max_iterations"})
    => LET n == Len(calls)
           m == Len(messages)
           e == Len(executed)
       IN  /\ m >= n + 1 /\ e >= n
           /\ messages[m - n].role = "assistant"
           /\ \A k \in 1..n : /\ ObservationOf(messages[m - n + k], calls[k])
                              /\ executed[e - n + k].name = calls[k].name

\* C3: a loop makes at most N completion requests, and a run in which every
\* response requested a tool call ends only after exactly N requests, at the
\* ceiling.
C3_ExactlyCeilingRequests ==
    prog \in Loops
    => /\ iteration <= Ceiling(prog)
       /\ (Ended /\ iteration > 0 /\ AssistantTurns = iteration)
          => (iteration = Ceiling(prog) /\ pc = "max_iterations")

\* what a caller sees of an outcome that has no final answer in it
LooksIncomplete ==
    IF prog = "test" THEN result = None ELSE "summary" \notin DOMAIN result

\* C4: the outcome of a run that hit the ceiling carries the accumulated
\* context and can be told from the outcome of every run that ended in DONE,
\* also when the final response had null or empty content.
C4_CeilingDistinctFromDone ==
    prog \in Loops
    => /\ pc = "done" => ~LooksIncomplete
       /\ pc = "max_iterations"
          => (LooksIncomplete /\ (prog # "test" => result = context))

\* C5: when the response at hand has a populated structured tool-call list,
\* the calls taken are exactly that list and the text was not scanned.
C5_StructuredListOnly ==
    (iteration > 0 /\ response.tool_calls # <<>> /\ (prog = "compare" => iteration = 1))
    => (~scanned /\ (pc = "exec" => calls = response.tool_calls))

\* C7: no fault raised inside the body of a known tool, called with
\* arguments that bind, leaves the executor; the loop does not end on it.
C7_NoToolFaultEscapes ==
    /\ \A i \in DOMAIN executed :
         executed[i].origin = "body" => ~Raised(executed[i].out)
    /\ pc = "raised" => raised.origin # "body"

\* C8: a call of a known tool whose arguments do not bind (missing, unexpected
\* or wrong-shaped) yields an error result with the failure message, and the
\* loop does not raise.
C8_BadArgumentsGiveError ==
    prog \in Loops
    => /\ \A i \in DOMAIN executed :
            executed[i].origin = "bind"
            => (~Raised(executed[i].out) /\ IsError(executed[i].out.ret)
                /\ executed[i].out.ret.error # <<>>)
       /\ pc = "raised" => raised.origin # "bind"

\* C9: a call of a name that is not in the registry yields an error result
\* that contains the name, and nothing is raised.
C9_UnknownToolGivesError ==
    /\ \A i \in DOMAIN executed :
         executed[i].origin = "lookup"
         => (~Raised(executed[i].out) /\ IsError(executed[i].out.ret)
             /\ executed[i].name \in Range(executed[i].out.ret.error))
    /\ pc = "raised" => raised.origin # "lookup"

\* C10: in structured mode a call whose argument string is not valid JSON
\* gets an error observation that carries the call's identifier, and the loop
\* neither raises nor drops the call.
C10_BadJsonGivesObservation ==
    prog \in {"working", "test"}
    => /\ \A i \in DOMAIN executed :
            executed[i].origin = "json"
            => /\ ~Raised(executed[i].out)
               /\ \E j \in DOMAIN messages :
                     /\ messages[j].role = "tool"
                     /\ messages[j].tool_call_id = executed[i].id
       /\ pc = "raised" => raised.origin # "json"

\* ------------------------------------------------------------------------
\* The text parsers
\* ------------------------------------------------------------------------
Scanned == pc # "scan" /\ prog \in {"extract_functools", "compare"}
TextAtHand == response.content.text

\* C11: for a text that holds the marker with a payload that does not parse,
\* extract_functools reports zero calls and something else than what it
\* reports for a text with no marker at all.
C11_MalformedToldFromNoMarker ==
    \A b \in Before, p \in BrokenPayloads, a \in After :
       (Scanned /\ prog = "extract_functools" /\ TextAtHand = b \o MarkerWith(p) \o a)
       => (calls = <<>> /\ result # extract_functools(FinalAnswer.content.text))

\* C12: from a text that is the marker followed by a bracketed list of n
\* well-formed objects, the n listed calls are extracted, in order, each
\* with its name and its arguments.
C12_ListedCallsExtracted ==
    \A batch \in WellFormedBatches :
       (Scanned /\ TextAtHand = Functools(batch)) => calls = batch

\* C13: the same with free text before and after the list, also when the
\* text after it holds a ']' and when an argument value is a list.
C13_MarkerAnywhereInText ==
    \A b \in Before, batch \in WellFormedBatches, a \in After :
       (Scanned /\ TextAtHand = b \o Functools(batch) \o a) => calls = batch

\* ------------------------------------------------------------------------
\* The two agents of a coordinator run
\* ------------------------------------------------------------------------
\* a logged execution in which a function of the registry was called
Invoked(e) == e.origin \in {"bind", "body"}
JustExecuted == Len(executed') = Len(executed) + 1
LastExecuted == executed'[Len(executed')]

\* C14: every tool function called during the producer loop is one of
\* create_quiz, save_quiz, and every one called during the consumer loop is
\* one of load_quiz, grade_responses, create_report.
C14_OnlyDeclaredTools ==
    [][(JustExecuted /\ Invoked(LastExecuted))
       => LastExecuted.name \in DeclaredTools(phase)]_vars

\* C15: a coordinator run goes through the producer loop and then, at most
\* once, through the consumer loop, whose tool subset is disjoint from the
\* producer's; the consumer starts, on a conversation of its own, only when
\* the producer loop has returned, and from then on every request and every
\* execution belongs to the consumer's conversation.
C15_ProducerThenConsumer ==
    [][/\ QuizMasterTools \cap GraderTools = {}
       /\ phase' # phase
          => /\ <<phase, phase'>> \in {<<"phase1", "phase3">>, <<"phase1", "aborted">>,
                                      <<"phase3", "finished">>}
             /\ pc \in {"done", "max_iterations"}
             /\ executed' = executed
       /\ phase' = "phase3" /\ phase = "phase1"
          => (pc' = "await" /\ iteration' = 0 /\ messages' = <<GraderTask>>)
       /\ (iteration' = iteration + 1 \/ JustExecuted)
          => /\ phase' = phase /\ phase \in {"phase1", "phase3"}
             /\ Head(messages) = IF phase = "phase1" THEN Task ELSE GraderTask]_vars

C15_Witness ==
    /\ phase = "phase3" /\ iteration > 0 /\ pc = "await"
    /\ \E i \in DOMAIN executed : executed[i].name = "grade_responses"
    /\ \E i \in DOMAIN executed : executed[i].name = "save_quiz"

\* ------------------------------------------------------------------------
\* The quiz store
\* ------------------------------------------------------------------------
QuizPrograms == {"fixed", "working"}
\* the argument mapping of a logged execution
ArgsOf(e) == IF "json" \in DOMAIN e.arguments THEN e.arguments.json ELSE e.arguments
Succeeded(e, name, key) ==
    e.name = name /\ e.origin = "body" /\ ~Raised(e.out) /\ key \in DOMAIN e.out.ret
LoadNow(quiz_id) == load_quiz([quiz_id |-> PyStr(quiz_id)], env, clock).out

\* C16: two successful save_quiz executions never return the same quiz_id,
\* and loading a returned quiz_id gives the questions saved under it.
C16_QuizIdsUniqueAndStable ==
    prog \in QuizPrograms
    => \A i \in DOMAIN executed :
          Succeeded(executed[i], "save_quiz", "quiz_id")
          => /\ \A j \in DOMAIN executed :
                   (j # i /\ Succeeded(executed[j], "save_quiz", "quiz_id"))
                   => executed[j].out.ret.quiz_id # executed[i].out.ret.quiz_id
             /\ LoadNow(executed[i].out.ret.quiz_id)
                = Ret([quiz_id |-> executed[i].out.ret.quiz_id,
                       questions |-> ArgsOf(executed[i]).obj.quiz_data.obj.questions])

C18_GradingIdempotent ==
    [][(/\ prog \in QuizPrograms /\ JustExecuted
        /\ LastExecuted.name = "grade_responses" /\ LastExecuted.origin = "body"
        /\ ~Raised(LastExecuted.out))
       => /\ env' = env
          /\ grade_responses(ArgsOf(LastExecuted).obj, env', clock').out = LastExecuted.out
          /\ grade_responses(ArgsOf(LastExecuted).obj, env', clock').env = env']_vars

C18_Witness ==
    /\ prog \in QuizPrograms /\ executed # <<>>
    /\ Succeeded(executed[Len(executed)], "grade_responses", "score")
    /\ executed[Len(executed)].out.ret.total > 0
    /\ executed[Len(executed)].out.ret.score > 0

\* ------------------------------------------------------------------------
\* The conversation in structured mode
\* ------------------------------------------------------------------------
\* the assistant turn at position i is answered call by call
Answered(i) ==
    LET tool_calls == messages[i].tool_calls
        n == Len(tool_calls)
    IN  /\ i + n <= Len(messages)
        /\ \A k \in 1..n : /\ messages[i + k].role = "tool"
                           /\ messages[i + k].tool_call_id = tool_calls[k].id
        /\ i + n < Len(messages) => messages[i + n + 1].role # "tool"

\* C19: in structured mode, when a request after the first is due, every
\* assistant turn of the conversation is followed by exactly one tool turn
\* per call it requested, with that call's identifier, and by no other tool
\* turn; a tool turn stands only behind the assistant turn it answers.
C19_ToolTurnsAnswerCalls ==
    (prog \in {"working", "compare"} /\ pc = "await" /\ iteration >= 1)
    => /\ \A i \in DOMAIN messages : messages[i].role = "assistant" => Answered(i)
       /\ \A j \in DOMAIN messages :
             messages[j].role = "tool"
             => \E i \in 1..(j - 1) :
                   /\ messages[i].role = "assistant"
                   /\ j - i <= Len(messages[i].tool_calls)
                   /\ \A k \in (i + 1)..(j - 1) : messages[k].role = "tool"

JustLeftBatch == pc = "exec" /\ pc' # "exec"

\* C20: a step of the loop calls the tool of exactly the request at hand,
\* once, and moves on to the next request; the loop leaves a batch only when
\* every request of it has been executed.
C20_OneInvocationPerRequest ==
    [][/\ prog \in QuizPrograms /\ executed' # executed
          => /\ pc = "exec" /\ JustExecuted
             /\ SubSeq(executed', 1, Len(executed)) = executed
             /\ LastExecuted.name = calls[idx].name
             /\ calls' = calls
             /\ pc' # "raised" => idx' = idx + 1
       /\ prog \in QuizPrograms /\ JustLeftBatch
          => (IF pc' = "raised" THEN idx ELSE idx' - 1) = Len(calls)]_vars

\* ------------------------------------------------------------------------
\* Failures of the endpoint, the conversation, the summary, the context
\* ------------------------------------------------------------------------
\* C21: a failure of the completion endpoint leaves the loop and the
\* coordinator: the failing request appends no turn, executes no tool and
\* returns no context, it is not sent again, and the run takes no further
\* step (no request, no tool execution, no hand-over) after it.
C21_EndpointFailureEndsRun ==
    [][/\ ~EndpointFailed
       /\ EndpointFailed'
          => /\ pc' = "raised" /\ phase' = phase
             /\ iteration' = iteration + 1
             /\ messages' = messages /\ executed' = executed /\ env' = env
             /\ result' = Pending]_vars

C21_Witness == EndpointFailed /\ phase = "phase3" /\ iteration = 1

LoopStarts == phase' # phase /\ phase' = "phase3"
TaskOf(ph) == IF ph = "phase3" THEN GraderTask ELSE Task

\* C22: within one loop invocation the conversation is append-only: it
\* starts as the single user turn of the task, every step of the loop leaves
\* the conversation it found as a prefix of the new one, and a new loop
\* invocation starts from a fresh one-turn conversation.
C22_ConversationAppendOnly ==
    [][/\ (pc = "await" /\ iteration = 0)
          => (messages = <<TaskOf(phase)>> /\ messages[1].role = "user")
       /\ IF LoopStarts
          THEN messages' = <<TaskOf(phase')>> /\ iteration' = 0
          ELSE /\ Len(messages') >= Len(messages)
               /\ SubSeq(messages', 1, Len(messages)) = messages]_vars

\* the Grader's conversation has grown while the producer's was longer
C22_Witness ==
    /\ phase = "phase3" /\ Len(messages) >= 3 /\ messages[1] = GraderTask
    /\ iteration > 1 /\ Len(executed) > Len(messages)

\* the plain text of the response at hand, "" when its content is null
PlainText(r) == IF r.content = None THEN <<>> ELSE r.content.text
\* the response at hand yields no tool call to the loop that reads it
YieldsNoCalls(r) ==
    IF prog = "fixed" THEN extract_functools(PlainText(r)) = None
    ELSE r.tool_calls = <<>>
Answered_now == pc = "await" /\ iteration' = iteration + 1 /\ ~EndpointFailed'

\* C23: a response that yields zero tool calls ends the loop in DONE with
\* exactly that response's plain text as the summary ("" for null content)
\* in the returned context; nothing else of the context changes, DONE is
\* entered only this way, and no step (request, tool execution, second
\* summary) follows DONE.
C23_DoneRecordsSummary ==
    [][(prog \in QuizPrograms)
       => (/\ (Answered_now /\ YieldsNoCalls(response')) => pc' = "done"
           /\ pc' = "done"
              => /\ Answered_now /\ YieldsNoCalls(response')
                 /\ context' = ("summary" :> PlainText(response')) @@ context
                 /\ result' = context'
                 /\ messages' = messages /\ executed' = executed
           /\ pc # "done")]_vars

C23_Witness ==
    /\ prog \in QuizPrograms /\ pc = "done" /\ executed # <<>>
    /\ response.content = None /\ result.summary = <<>>
    /\ "quiz_id" \in DOMAIN result

ProjectedKeys == {"quiz_data", "quiz_id", "grading_results", "report_path"}
\* the execution returned a result that is no error result
Successful(e) == ~Raised(e.out) /\ ~IsError(e.out.ret)
\* the context key a successful execution of a tool is projected to
KeyOf(name) ==
    CASE name = "create_quiz" -> "quiz_data"
      [] name = "save_quiz" -> "quiz_id"
      [] name = "grade_responses" -> "grading_results"
      [] name = "create_report" -> "report_path"
      [] OTHER -> "none"
ValueOf(e) ==
    CASE e.name = "save_quiz" -> e.out.ret.quiz_id
      [] e.name = "create_report" -> e.out.ret.path
      [] OTHER -> e.out.ret
SameAt(keys) == \A k \in keys : Get(context', k) = Get(context, k)

\* C24: the context projection is keyed by tool name: a successful
\* create_quiz, save_quiz, grade_responses or create_report sets quiz_data,
\* quiz_id, grading_results or report_path to its result, its quiz_id, its
\* result or its path and leaves the other three as they were; no other
\* step of a loop (another tool, an error result, a raised call, a request)
\* changes any of the four keys, so after a run each holds the projection of
\* the last such execution or else what the caller passed in.
C24_ProjectionKeyedByTool ==
    [][(prog \in QuizPrograms)
       => IF JustExecuted /\ Successful(LastExecuted) /\ KeyOf(LastExecuted.name) # "none"
          THEN /\ KeyOf(LastExecuted.name) \in DOMAIN context'
               /\ context'[KeyOf(LastExecuted.name)] = ValueOf(LastExecuted)
               /\ SameAt(ProjectedKeys \ {KeyOf(LastExecuted.name)})
          ELSE SameAt(ProjectedKeys)]_vars

\* a run on a caller's context whose quiz_id was replaced by that of the
\* run's save_quiz, while the caller's responses were kept
C24_Witness ==
    /\ prog \in QuizPrograms /\ pc = "done" /\ Len(executed) = 2
    /\ executed[1].name = "save_quiz" /\ Successful(executed[1])
    /\ executed[2].name = "create_quiz" /\ Successful(executed[2])
    /\ "responses" \in DOMAIN context
    /\ context.quiz_id = QuizId(2) /\ context.quiz_id = executed[1].out.ret.quiz_id
    /\ context.quiz_data = executed[2].out.ret

\* ------------------------------------------------------------------------
\* Results of the tools
\* ------------------------------------------------------------------------
SuccessKeys == {"questions", "quiz_id", "score", "path"}
Returned_results == {executed[i].out.ret : i \in {j \in DOMAIN executed : ~Raised(executed[j].out)}}

\* C25: every result a tool or the executor has returned is an error result
\* or a success payload and never both: a result with an "error" key has
\* none of the keys questions, quiz_id, score and path, and a result without
\* it has at least one of them.
C25_ErrorOrSuccess ==
    prog \in QuizPrograms
    => \A res \in Returned_results :
         IF IsError(res) THEN DOMAIN res \cap SuccessKeys = {}
         ELSE DOMAIN res \cap SuccessKeys # {}

\* grade_responses has handed on the error result of load_quiz, and the
\* executor has answered a call whose arguments did not bind
C25_Witness ==
    /\ prog = "fixed" /\ Len(executed) = 2
    /\ executed[1].name = "grade_responses" /\ executed[1].origin = "body"
    /\ ~Raised(executed[1].out) /\ IsError(executed[1].out.ret)
    /\ executed[2].origin = "bind" /\ ~Raised(executed[2].out)

\* the marks of a detail list
Marked(details, mark) == {i \in DOMAIN details : details[i].result = mark}

\* C26: a successful grading result has 0 <= score <= total, total is the
\* number of questions of the stored quiz, the detail list has exactly
\* total entries, entry i for question i with that question's correct
\* answer, an entry is marked correct exactly when the answer taken equals
\* it, and score is the number of entries marked correct.
C26_GradingResultShape ==
    [][(/\ prog \in QuizPrograms /\ JustExecuted
        /\ LastExecuted.name = "grade_responses" /\ Successful(LastExecuted))
       => LET res == LastExecuted.out.ret
              questions == json_load(env.store[res.quiz_id]).questions
          IN  /\ res.total = Len(questions)
              /\ 0 <= res.score /\ res.score <= res.total
              /\ DOMAIN res.details = 1..res.total
              /\ \A i \in 1..res.total :
                   /\ res.details[i].q = i
                   /\ res.details[i].correct = Head(questions[i].correct_answer)
                   /\ res.details[i].result = "ok"
                      <=> res.details[i].user = res.details[i].correct
              /\ res.score = Cardinality(Marked(res.details, "ok"))]_vars

\* the Grader has graded a quiz of two questions with one right answer
C26_Witness ==
    /\ phase = "phase3" /\ executed # <<>>
    /\ LET e == executed[Len(executed)]
       IN  /\ e.name = "grade_responses" /\ Successful(e)
           /\ e.out.ret.total = 2 /\ e.out.ret.score = 1
           /\ Marked(e.out.ret.details, "wrong") = {2}

\* ------------------------------------------------------------------------
\* Requests
\* ------------------------------------------------------------------------
\* a completion request is sent in this step
Sent == pc = "await" /\ iteration' = iteration + 1
\* the tool declarations the running program was set up with
AgentTools ==
    CASE prog = "test" -> AVAILABLE_TOOLS
      [] prog = "compare" -> COMPARE_TOOLS
      [] OTHER -> tool_schemas

\* C27: every completion request carries the whole conversation as it is
\* when the request is sent, together with exactly the tool declarations of
\* the running agent, and these are the declarations of the request before
\* it in the same run.
C27_RequestCarriesConversationAndTools ==
    [][Sent
       => /\ request'.messages = messages
          /\ "tools" \in DOMAIN request'
          /\ request'.tools = AgentTools
          /\ iteration > 0
             => ("tools" \in DOMAIN request /\ request.tools = request'.tools)]_vars

\* ------------------------------------------------------------------------
\* What passes from the producer phase to the consumer phase
\* ------------------------------------------------------------------------
\* the tool a turn of the conversation reports on, "" for any other turn
ToolOfTurn(m) ==
    IF prog = "fixed"
    THEN IF m.role = "user" /\ "tool" \in DOMAIN m.content THEN m.content.tool ELSE ""
    ELSE IF m.role = "tool" THEN m.name ELSE ""
\* the running loop has itself saved a quiz
LoopSaved == \E i \in 2..Len(messages) : ToolOfTurn(messages[i]) = "save_quiz"
\* the coordinator run started on an empty quiz store
StoreAtStart == Env(<<>>, {})
ReadsStore(e) == e.name \in {"load_quiz", "grade_responses"} /\ e.origin = "body"

\* C28: the consumer phase observes nothing of the producer phase but the
\* handed-over context: it starts from a fresh one-turn conversation, and
\* what its tools read is not what phase one wrote, so that a consumer that
\* has saved no quiz itself gets from load_quiz and grade_responses what
\* they give on the store as it was before phase one.
C28_ConsumerObservesContextOnly ==
    [][/\ (phase = "phase1" /\ phase' = "phase3") => messages' = <<GraderTask>>
       /\ (phase = "phase3" /\ JustExecuted /\ ReadsStore(LastExecuted) /\ ~LoopSaved)
          => LastExecuted.out
               = CallTool(LastExecuted.name, ArgsOf(LastExecuted), StoreAtStart, clock').out]_vars

\* C28, amended: of what the producer phase held in memory the consumer
\* phase gets the quiz_id alone: it starts from a fresh one-turn conversation
\* and a context of exactly quiz_id and the user's responses, with no tool
\* call pending; the quiz store passes from phase one to phase two as it is,
\* and load_quiz and grade_responses of the consumer read it.
C28_ContextAndStorePass ==
    [][/\ (phase = "phase1" /\ phase' = "phase3")
          => /\ messages' = <<GraderTask>> /\ iteration' = 0 /\ calls' = <<>>
             /\ DOMAIN context' = {"quiz_id", "responses"}
             /\ context'.responses \in UserResponses
             /\ ~NotQuizId(Get(result, "quiz_id")) => (env' = env /\ context'.quiz_id = result.quiz_id)
             /\ executed' = executed
       /\ (phase = "phase3" /\ JustExecuted /\ ReadsStore(LastExecuted))
          => LastExecuted.out
               = CallTool(LastExecuted.name, ArgsOf(LastExecuted), env, clock').out]_vars

\* the Grader has graded the quiz that the producer loop saved
C28_Witness ==
    /\ phase = "phase3" /\ executed # <<>> /\ ~LoopSaved
    /\ LET e == executed[Len(executed)]
       IN  /\ e.name = "grade_responses" /\ Successful(e)
           /\ e.out.ret.quiz_id = context.quiz_id
    /\ \E i \in DOMAIN executed :
         /\ Succeeded(executed[i], "save_quiz", "quiz_id")
         /\ executed[i].out.ret.quiz_id = context.quiz_id

\* ------------------------------------------------------------------------
\* The two loops side by side
\* ------------------------------------------------------------------------
\* the batch whose functools text is the response at hand, if there is one
BatchOf(r) ==
    {b \in Batches : r = Response(Text(<<Word("Calling")>> \o Functools(b)), <<>>)}
\* a batch of well-formed calls: a name and a JSON object of arguments each
WellFormed(b) == \A k \in DOMAIN b : IsObj(b[k].arguments)
\* what the structured loop does with the call the embedded-text loop has
\* just executed, in the state the embedded-text loop found
Structured_twin == WorkingCall(LastExecuted.name, Dumps(LastExecuted.arguments), env, clock')

\* C29: on well-formed batches the embedded-text loop and the structured
\* loop do the same: the embedded-text loop takes from the functools text of
\* a batch exactly the calls the structured loop gets as structured calls,
\* and for every call it executes the structured loop, in the same state,
\* either raises too or returns too, leaves the same quiz store and projects
\* the same context; both record the same summary for a call-free response.
C29_LoopsAgreeOnWellFormedCalls ==
    [][(prog = "fixed")
       => (/\ \A b \in BatchOf(response') :
                (Sent /\ ~EndpointFailed' /\ WellFormed(b))
                => /\ calls' = b
                   /\ \A k \in DOMAIN b :
                        /\ Structured(b)[k].name = b[k].name
                        /\ Loads(Structured(b)[k].arguments) = Ret(b[k].arguments)
           /\ (JustExecuted /\ WellFormed(calls))
              => /\ Raised(Structured_twin.out) = Raised(LastExecuted.out)
                 /\ Structured_twin.env = env'
                 /\ ~Raised(LastExecuted.out)
                    => context' = UpdateContext(context, LastExecuted.name,
                                                Structured_twin.out.ret))]_vars

\* a save_quiz execution of the producer loop returned this identifier
SavedByProducer(quiz_id) ==
    \E i \in DOMAIN executed :
      /\ Succeeded(executed[i], "save_quiz", "quiz_id")
      /\ executed[i].out.ret.quiz_id = quiz_id
\* the fallback of the structured-mode coordinator has just saved a quiz of
\* its own under this identifier
SavedByFallback(quiz_id) ==
    /\ prog = "working" /\ NotQuizId(Get(result, "quiz_id"))
    /\ quiz_id = QuizId(clock')
    /\ \E num_questions \in NumQuestions :
         env' = save_quiz([quiz_data |->
                             PyDict(create_quiz([source_text |-> SourceText,
                                                 num_questions |-> PyInt(num_questions)],
                                                env, clock').out.ret)],
                          env, clock').env

\* C30: in both coordinators the consumer loop is started only with a
\* non-empty quiz_id that a save_quiz execution of the same run returned (in
\* the producer loop, or in the fallback of the structured-mode coordinator),
\* and the quiz file of that identifier is in the store when phase two
\* starts.
C30_GraderStartsOnSavedQuiz ==
    [][(phase = "phase1" /\ phase' = "phase3")
       => /\ "quiz_id" \in DOMAIN context'
          /\ ~NotQuizId(context'.quiz_id)
          /\ SavedByProducer(context'.quiz_id) \/ SavedByFallback(context'.quiz_id)
          /\ context'.quiz_id \in DOMAIN env'.store]_vars

\* the Grader was started on the quiz the fallback saved after a producer
\* loop that had saved nothing
C30_Witness ==
    /\ prog = "working" /\ phase = "phase3" /\ iteration = 0
    /\ ~SavedByProducer(context.quiz_id)
    /\ context.quiz_id \in DOMAIN env.store
    /\ executed # <<>>

\* ------------------------------------------------------------------------
\* The quiz the user sees and the quiz that is graded
\* ------------------------------------------------------------------------
\* the quiz the fallback of the structured-mode coordinator creates
FallbackQuiz(num_questions) ==
    create_quiz([source_text |-> SourceText, num_questions |-> PyInt(num_questions)],
                env, clock').out.ret
\* the questions in the quiz file of the identifier the Grader is started with
Persisted == json_load(env'.store[context'.quiz_id]).questions

\* C31: the questions the coordinator prints in phase two, those of the
\* quiz_data of the context it holds, are the questions stored under the
\* quiz_id it hands to the Grader, whatever create_quiz and save_quiz calls
\* the producer loop has made.
C31_ShownQuestionsAreStored ==
    [][(phase = "phase1" /\ phase' = "phase3")
       => IF ~NotQuizId(Get(result, "quiz_id"))
          THEN QuestionsShown(result) = Persisted
          ELSE \E n \in NumQuestions :
                 /\ env' = save_quiz([quiz_data |-> PyDict(FallbackQuiz(n))], env, clock').env
                 /\ QuestionsShown(("quiz_data" :> FallbackQuiz(n)) @@ result) = Persisted]_vars

\* ------------------------------------------------------------------------
\* Error results
\* ------------------------------------------------------------------------
ErrorResult(e) == ~Raised(e.out) /\ IsError(e.out.ret)

\* C32: a tool execution that gives an error result leaves the context as
\* it is: no key of it, quiz_data, quiz_id, grading_results, report_path and
\* summary among them, is added or changed by that call.
C32_ErrorResultKeepsContext ==
    [][(prog \in QuizPrograms /\ JustExecuted /\ ErrorResult(LastExecuted))
       => context' = context]_vars

\* grade_responses and save_quiz have given error results in a run whose
\* context holds the caller's quiz_id and nothing of the two calls
C32_Witness ==
    /\ prog \in QuizPrograms /\ Len(executed) = 2
    /\ executed[1].name = "grade_responses" /\ ErrorResult(executed[1])
    /\ executed[1].origin = "body"
    /\ ErrorResult(executed[2])
    /\ "grading_results" \notin DOMAIN context

\* C33: a tool call that ends with an error-shaped result has written
\* nothing to the quiz store: no quiz file and no report file has been
\* created, truncated or overwritten by it.
C33_ErrorResultWritesNothing ==
    [][(JustExecuted /\ ErrorResult(LastExecuted)) => env' = env]_vars

\* C34: load_quiz of an identifier that is not in the store returns the
\* not-found error result naming that identifier, grade_responses of such an
\* identifier returns the same result (no score), and neither call creates
\* or changes a file of the store.
NotFound(quiz_id) == [error |-> <<"Quiz not found: ", quiz_id>>]
Lookups == {"load_quiz", "grade_responses"}
AskedId(e) == e.arguments.obj.quiz_id.str
Graded(e) == e.name = "grade_responses" /\ ~Raised(e.out) /\ ~IsError(e.out.ret)
StoredQuestions(e) == json_load(env.store[AskedId(e)]).questions
GivenResponses(e) == e.arguments.obj.responses.arr
Upper_str(text) == [k \in DOMAIN text |-> Upper(text[k])]
DetailAsClaimed(e, i) ==
    LET d == e.out.ret.details[i]
    IN  /\ d.q = i
        /\ d.correct = StoredQuestions(e)[i].correct_answer[1]
        /\ IF i <= Len(GivenResponses(e))
           THEN /\ d.user = Upper_str(GivenResponses(e)[i])[1]
                /\ d.result = (IF d.user = d.correct THEN "ok" ELSE "wrong")
           ELSE /\ d.user = "X"
                /\ d.result = "wrong"
C35_GradingRule ==
    [][(JustExecuted /\ Graded(LastExecuted))
       => (LET r == LastExecuted.out.ret
               total == Len(StoredQuestions(LastExecuted))
           IN  /\ r.total = total
               /\ DOMAIN r.details = 1..total
               /\ \A i \in 1..total : DetailAsClaimed(LastExecuted, i)
               /\ r.score = Cardinality({i \in 1..total : r.details[i].result = "ok"}))]_vars

\* C36: create_quiz returns exactly min(num_questions, max(1, s)) questions,
\* s being the number of sentences of the source text longer than 10
\* characters, and none when num_questions <= 0; their ids are 1..count in
\* order and the returned count is the length of the question list.
Created(e) == e.name = "create_quiz" /\ e.origin = "body" /\ ~Raised(e.out)
LongSentences(e) ==
    LET text == e.arguments.obj.source_text.str
    IN  Cardinality({k \in DOMAIN text : text[k].len > 10})
Asked(e) == e.arguments.obj.num_questions.int
C36_QuestionCount ==
    \A j \in DOMAIN executed :
        (prog = "execute_tool" /\ Created(executed[j])) =>
            LET r == executed[j].out.ret
                s == LongSentences(executed[j])
                num_questions == Asked(executed[j])
            IN  /\ Len(r.questions) = (IF num_questions <= 0 THEN 0
                                        ELSE IF num_questions <= s THEN num_questions
                                        ELSE IF s >= 1 THEN s ELSE 1)
                /\ \A k \in DOMAIN r.questions : r.questions[k].id = k
                /\ r.count = Len(r.questions)
\* more questions asked for than the text has sentences, one piece too short
C36_Witness ==
    /\ prog = "execute_tool"
    /\ \E j \in DOMAIN executed :
         /\ Created(executed[j])
         /\ Asked(executed[j]) = MaxQuestions
         /\ LongSentences(executed[j]) = 1
         /\ Len(executed[j].arguments.obj.source_text.str) = 2
         /\ executed[j].out.ret.count = 1
====
